---- MODULE Spec2Model ----
(***************************************************************************)
(* The event dispatch engine of rust-lib/flowy-sys/src/dispatch.rs:        *)
(* the EVENT_DISPATCH singleton behind its RwLock, EventDispatch::construct,*)
(* async_send / sync_send, the unit of work spawned on the tokio runtime    *)
(* (DispatchService::call) and the DispatchFuture the caller resolves.      *)
(*                                                                          *)
(* One step of the model is one uninterrupted run of code: a call up to the *)
(* point where it takes or releases the lock, or one poll of a spawned task *)
(* from one await point to the next.                                        *)
(***************************************************************************)
EXTENDS Integers, Sequences, FiniteSets, TLC

\* ---------------------------------------------------------------- bounds
\* Number of requests submitted in one run.
MaxRequests == 2
\* Number of calls of EventDispatch::construct in one run.
MaxConstructs == 2

RequestIds == 1..MaxRequests

\* ------------------------------------------------------- inputs and values
\* Event keys a caller may name.
Events == {"e1", "e2"}
\* Payload::None or some bytes.
Payloads == {"None", "p1"}
\* The caller's return path.
Modes == {"async", "sync"}

\* Option<T>: None is the empty sequence, Some(x) the one-element sequence.
None == <<>>
Some(x) == <<x>>
IsSome(o) == Len(o) = 1
Unwrap(o) == o[1]

\* The module lists a module_factory may return: Module {name, events}.
ModuleLists ==
    { << [name |-> "mA", events |-> {"e1"}] >>,
      << [name |-> "mB", events |-> {"e1", "e2"}] >> }

\* as_module_map: every event of every module is keyed to its module; a key
\* claimed twice keeps the module registered last.
as_module_map(modules) ==
    [ e \in UNION { modules[i].events : i \in DOMAIN modules } |->
        modules[ CHOOSE i \in DOMAIN modules :
                    /\ e \in modules[i].events
                    /\ \A j \in DOMAIN modules : j > i => e \notin modules[j].events ].name ]

\* Mutant of module_map_get: the key is ignored, any registered module answers.
module_map_get_any(module_map, event) ==
    IF DOMAIN module_map # {}
    THEN Some(module_map[CHOOSE k \in DOMAIN module_map : TRUE])
    ELSE None

\* ModuleMap::get
module_map_get(module_map, event) ==
    IF event \in DOMAIN module_map THEN Some(module_map[event]) ELSE None

\* uuid::Uuid::new_v4().to_string(): the n-th request of the run gets a fresh id.
new_v4(n) == ToString(n)

\* ------------------------------------------------------------ conversions
\* format!("{:?}", request) of a ModuleRequest: the request's three fields.
Debug_ModuleRequest(request) ==
    << "ModuleRequest", request.id, request.event, request.payload >>

\* format!("{:?}", e) of a SystemError.
Debug_SystemError(e) == << "SystemError", e.kind >> \o e.msg

\* format!("{:?}", e) of a tokio JoinError ("Cancelled" or "Panic").
Debug_JoinError(e) == << "JoinError", e >>

\* format!("{:?}", e) of the PoisonError of EVENT_DISPATCH.read().
Debug_PoisonError == << "PoisonError" >>

\* InternalError::new(msg)
InternalError_new(msg) == [kind |-> "Internal", msg |-> msg]

\* InternalError::as_response: an error EventResponse carrying the message.
as_response(e) == [status |-> "Internal", payload |-> e.msg]

\* impl From<SystemError> for EventResponse: the error is embedded in the
\* response's error slot.
SystemError_into_EventResponse(e) ==
    IF e.kind = "Internal"
    THEN as_response(e)
    ELSE [status |-> "Err", payload |-> e.msg]

\* What a handler can return for a request: Ok(EventResponse) or Err(SystemError).
\* The handlers of the model answer a request with its payload or reject that
\* payload with a domain error naming it.
HandlerResults(request) ==
    { [ok |-> TRUE,  val |-> [status |-> "Ok", payload |-> << request.payload >>]],
      [ok |-> FALSE, val |-> [kind |-> "Domain", msg |-> << "rejected", request.payload >>]] }

\* What Module::new_service can fail with.
FactoryErrors == { [kind |-> "Factory", msg |-> << "new_service" >>] }

\* Result::unwrap_or_else over the model's ok/val records.
unwrap_or_else(result, f(_)) == IF result.ok THEN result.val ELSE f(result.val)

\* ------------------------------------------------------- DispatchRequest
\* DispatchRequest::new
DispatchRequest_new(event, n) ==
    [ payload |-> "None", event |-> event, id |-> new_v4(n), callback |-> None ]

\* DispatchRequest::payload
DispatchRequest_payload(self, payload) == [self EXCEPT !.payload = payload]

\* DispatchRequest::callback
DispatchRequest_callback(self, callback) == [self EXCEPT !.callback = Some(callback)]

\* Mutant of into_parts: the payload is left behind, the ModuleRequest is
\* built with the default payload.
into_parts_without_payload(self) ==
    << [id |-> self.id, event |-> self.event, payload |-> "None"], self.callback >>

\* DispatchRequest::into_parts: (ModuleRequest::new(event, id, payload), callback)
into_parts(self) ==
    << [id |-> self.id, event |-> self.event, payload |-> self.payload], self.callback >>

\* The requests a caller can build with the fluent constructor, over the
\* given payloads.
BuiltRequests(n, payloads) ==
    LET base == { DispatchRequest_payload(DispatchRequest_new(e, n), p) :
                    e \in Events, p \in payloads }
    IN  base \cup { DispatchRequest_callback(b, "cb") : b \in base }

\* ------------------------------------------------------------------ state
VARIABLES
    EVENT_DISPATCH,  \* Option<EventDispatch>: None or Some([module_map, runtime])
    poisoned,        \* the RwLock is poisoned
    writer,          \* a construct call holds the write guard
    readers,         \* the submissions holding a read guard
    constructPc,     \* "idle" or "writing": the initializing thread's position
    pending,         \* the EventDispatch a construct call built and is installing
    nConstructs,     \* construct calls made so far
    nextId,          \* the next request to be built
    request,         \* request id -> the DispatchRequest submitted (or None)
    caller,          \* request id -> [pc, mode, results]
    handle,          \* request id -> the DispatchFuture returned (or None)
    task,            \* request id -> the spawned unit of work
    seen,            \* request id -> the ModuleRequests its handler invocations got
    cbLog            \* request id -> the Responses its callback was invoked with

vars == << EVENT_DISPATCH, poisoned, writer, readers, constructPc, pending,
           nConstructs, nextId, request, caller, handle, task, seen, cbLog >>

lockVars == << poisoned, writer, readers >>
constructVars == << constructPc, pending, nConstructs >>

\* A unit of work that was never spawned.
NoTask ==
    [ pc |-> "none", module_map |-> << >>, runtime |-> 0, dispatch_request |-> None,
      routed |-> "none", module |-> None, ctor |-> "none", hres |-> None,
      callback |-> None, response |-> None, output |-> None ]

\* The await points of a spawned task: where the runtime's shutdown drops it.
PendingPcs == {"spawned", "new_service", "handler", "callback"}

Init ==
    /\ EVENT_DISPATCH = None
    /\ poisoned = FALSE
    /\ writer = FALSE
    /\ readers = {}
    /\ constructPc = "idle"
    /\ pending = None
    /\ nConstructs = 0
    /\ nextId = 1
    /\ request = [r \in RequestIds |-> None]
    /\ caller = [r \in RequestIds |-> [pc |-> "idle", mode |-> "async", results |-> << >>]]
    /\ handle = [r \in RequestIds |-> None]
    /\ task = [r \in RequestIds |-> NoTask]
    /\ seen = [r \in RequestIds |-> << >>]
    /\ cbLog = [r \in RequestIds |-> << >>]

\* ------------------------------------------------ EventDispatch::construct
\* The tasks of a runtime that is dropped: those at an await point are dropped
\* with it and their JoinHandles report a cancelled JoinError; a task that has
\* produced its output keeps it. (A task's runtime field names the runtime
\* that owns it; a task that has ended is owned by none.)
shutdown_runtime(tasks, rt) ==
    [ r \in RequestIds |->
        IF tasks[r].runtime = rt /\ tasks[r].pc \in PendingPcs
        THEN [tasks[r] EXCEPT !.pc = "cancelled", !.runtime = 0]
        ELSE tasks[r] ]

\* The runtime owned by the installed EventDispatch (0 when there is none).
installed_runtime == IF IsSome(EVENT_DISPATCH) THEN Unwrap(EVENT_DISPATCH).runtime ELSE 0

\* construct, lines 40-49 up to EVENT_DISPATCH.write().unwrap(): the modules
\* are built into a map, a new runtime is created, and the write guard is
\* taken once no guard is held. On a poisoned lock unwrap() panics and the
\* call ends there.
construct_write(modules) ==
    /\ constructPc = "idle"
    /\ nConstructs < MaxConstructs
    /\ ~writer /\ readers = {}
    /\ nConstructs' = nConstructs + 1
    /\ IF poisoned
       THEN UNCHANGED << writer, pending, constructPc >>
       ELSE /\ writer' = TRUE
            /\ pending' = Some([ module_map |-> as_module_map(modules),
                                 runtime |-> nConstructs + 1 ])
            /\ constructPc' = "writing"
    /\ UNCHANGED << EVENT_DISPATCH, poisoned, readers, nextId, request, caller,
                    handle, task, seen, cbLog >>

\* Mutant of construct_assign: the slot is emptied instead of filled.
construct_assign_take ==
    /\ constructPc = "writing"
    /\ EVENT_DISPATCH' = None
    /\ task' = shutdown_runtime(task, installed_runtime)
    /\ pending' = None
    /\ writer' = FALSE
    /\ constructPc' = "idle"
    /\ UNCHANGED << poisoned, readers, nConstructs, nextId, request, caller,
                    handle, seen, cbLog >>

\* construct, line 49, the assignment under the write guard: the previous
\* EventDispatch is dropped (its runtime shuts down), the new one is installed
\* and the guard is released.
construct_assign ==
    /\ constructPc = "writing"
    /\ EVENT_DISPATCH' = pending
    /\ task' = shutdown_runtime(task, installed_runtime)
    /\ pending' = None
    /\ writer' = FALSE
    /\ constructPc' = "idle"
    /\ UNCHANGED << poisoned, readers, nConstructs, nextId, request, caller,
                    handle, seen, cbLog >>

\* ---------------------------------------------- EventDispatch::async_send
\* Mutant of runtime_error_future: the Err arm returns a handle that waits for
\* a unit of work, though none was spawned.
runtime_error_future_pending == [ kind |-> "join", value |-> << >> ]

\* The error handle of lines 76-82.
runtime_error_future ==
    [ kind |-> "ready",
      value |-> Some(as_response(InternalError_new(
                    << "Dispatch runtime error: " >> \o Debug_PoisonError))) ]

\* The handle of lines 66-73, which awaits the JoinHandle of the spawned task.
join_future == [ kind |-> "join", value |-> None ]

\* Mutant of async_send_read: the singleton is behind an exclusive lock, a
\* submission also waits for the submissions that hold it.
async_send_read_exclusive(n, req, mode) ==
    /\ n = nextId
    /\ n \in RequestIds
    /\ ~writer /\ readers = {}
    /\ nextId' = n + 1
    /\ request' = [request EXCEPT ![n] = Some(req)]
    /\ IF poisoned
       THEN /\ handle' = [handle EXCEPT ![n] = Some(runtime_error_future)]
            /\ caller' = [caller EXCEPT ![n].pc = "waiting", ![n].mode = mode]
            /\ UNCHANGED readers
       ELSE /\ readers' = readers \cup {n}
            /\ caller' = [caller EXCEPT ![n].pc = "reading", ![n].mode = mode]
            /\ UNCHANGED handle
    /\ UNCHANGED << EVENT_DISPATCH, poisoned, writer, constructVars, task, seen, cbLog >>

\* async_send, line 53: EVENT_DISPATCH.read(). The caller has built request n
\* and submits it in the given mode. The read guard is granted while no writer
\* holds the lock; on a poisoned lock the Err arm returns the error handle.
async_send_read(n, req, mode) ==
    /\ n = nextId
    /\ n \in RequestIds
    /\ ~writer
    /\ nextId' = n + 1
    /\ request' = [request EXCEPT ![n] = Some(req)]
    /\ IF poisoned
       THEN /\ handle' = [handle EXCEPT ![n] = Some(runtime_error_future)]
            /\ caller' = [caller EXCEPT ![n].pc = "waiting", ![n].mode = mode]
            /\ UNCHANGED readers
       ELSE /\ readers' = readers \cup {n}
            /\ caller' = [caller EXCEPT ![n].pc = "reading", ![n].mode = mode]
            /\ UNCHANGED handle
    /\ UNCHANGED << EVENT_DISPATCH, poisoned, writer, constructVars, task, seen, cbLog >>

\* Mutant of spawn: the closure takes the request from a slot shared by all
\* submissions instead of owning its own.
spawn_shared_request(dispatch, req) ==
    [ NoTask EXCEPT !.pc = "spawned",
                    !.module_map = dispatch.module_map,
                    !.runtime = dispatch.runtime,
                    !.dispatch_request = request[1] ]

\* Mutant of spawn: the service is given a registry built afresh from one
\* module list, not the clone of the installed one.
spawn_fresh_registry(dispatch, req) ==
    [ NoTask EXCEPT !.pc = "spawned",
                    !.module_map = as_module_map(<< [name |-> "mB", events |-> {"e1", "e2"}] >>),
                    !.runtime = dispatch.runtime,
                    !.dispatch_request = Some(req) ]

\* The task runtime.spawn creates for a request: the closure owns the
\* DispatchService (a clone of the module map) and the request.
spawn(dispatch, req) ==
    [ NoTask EXCEPT !.pc = "spawned",
                    !.module_map = dispatch.module_map,
                    !.runtime = dispatch.runtime,
                    !.dispatch_request = Some(req) ]

\* Mutant of async_send_spawn: the read guard moves into the returned future
\* and is not released when async_send returns.
async_send_spawn_keeps_guard(n) ==
    /\ caller[n].pc = "reading"
    /\ IF IsSome(EVENT_DISPATCH)
       THEN /\ task' = [task EXCEPT ![n] = spawn(Unwrap(EVENT_DISPATCH), Unwrap(request[n]))]
            /\ handle' = [handle EXCEPT ![n] = Some(join_future)]
            /\ caller' = [caller EXCEPT ![n].pc = "waiting"]
            /\ UNCHANGED readers
       ELSE /\ caller' = [caller EXCEPT ![n].pc = "panicked"]
            /\ readers' = readers \ {n}
            /\ UNCHANGED << task, handle >>
    /\ UNCHANGED << EVENT_DISPATCH, poisoned, writer, constructVars, nextId,
                    request, seen, cbLog >>

\* async_send, lines 55-74, under the read guard: unwrap the singleton (a
\* panic while it is None), clone the module map, spawn the unit of work and
\* return the handle; the guard is released on the way out.
async_send_spawn(n) ==
    /\ caller[n].pc = "reading"
    /\ readers' = readers \ {n}
    /\ IF IsSome(EVENT_DISPATCH)
       THEN /\ task' = [task EXCEPT ![n] = spawn(Unwrap(EVENT_DISPATCH), Unwrap(request[n]))]
            /\ handle' = [handle EXCEPT ![n] = Some(join_future)]
            /\ caller' = [caller EXCEPT ![n].pc = "waiting"]
       ELSE /\ caller' = [caller EXCEPT ![n].pc = "panicked"]
            /\ UNCHANGED << task, handle >>
    /\ UNCHANGED << EVENT_DISPATCH, poisoned, writer, constructVars, nextId,
                    request, seen, cbLog >>

\* ------------------------------------------------- DispatchService::call
\* Mutant of spawn_output: the Err of call leaves the task as it is.
spawn_output_raw(call_result) == call_result.val

\* Line 63: the Result of call becomes the task's output, an Err through
\* InternalError::new(format!("{:?}", e)).as_response().
spawn_output(call_result) ==
    unwrap_or_else(call_result,
                   LAMBDA e : as_response(InternalError_new(Debug_SystemError(e))))

\* Mutant of normalize: any error is replaced by one generic internal error.
normalize_generic(result) ==
    IF result.ok THEN result.val
    ELSE as_response(InternalError_new(<< "dispatch failed" >>))

\* Line 201: the handler's (or the lookup's) Result becomes the final Response.
normalize(result) == unwrap_or_else(result, SystemError_into_EventResponse)

\* Mutant of lookup_miss: the message leaves the request out.
lookup_miss_without_request(module_request) ==
    [ ok |-> FALSE,
      val |-> InternalError_new(<< "Can not find the module to handle the request:" >>) ]

\* Lines 190-197: the Err of a lookup that found no module.
lookup_miss(module_request) ==
    [ ok |-> FALSE,
      val |-> InternalError_new(
                 << "Can not find the module to handle the request:" >>
                 \o Debug_ModuleRequest(module_request)) ]

\* Mutant of call_respond: the callback is called but its future is not awaited.
call_respond_no_await(n, t, result) ==
    LET response == normalize(result)
    IN  /\ cbLog' = [cbLog EXCEPT ![n] =
                        IF IsSome(t.callback) THEN Append(@, response) ELSE @]
        /\ task' = [task EXCEPT ![n] =
               [t EXCEPT !.response = Some(response),
                         !.output = Some(spawn_output([ok |-> TRUE, val |-> response])),
                         !.pc = "finished", !.runtime = 0]]

\* Lines 201-207 for task n, entered with the Result of the match: the
\* Response is fixed, the callback (if any) is called with a clone of it and
\* awaited; without a callback call returns Ok(response) at once.
call_respond(n, t, result) ==
    LET response == normalize(result)
    IN  IF IsSome(t.callback)
        THEN /\ cbLog' = [cbLog EXCEPT ![n] = Append(@, response)]
             /\ task' = [task EXCEPT ![n] =
                    [t EXCEPT !.response = Some(response), !.pc = "callback"]]
        ELSE /\ task' = [task EXCEPT ![n] =
                    [t EXCEPT !.response = Some(response),
                              !.output = Some(spawn_output([ok |-> TRUE, val |-> response])),
                              !.pc = "finished", !.runtime = 0]]
             /\ UNCHANGED cbLog

\* First poll of the task, lines 174-180 and 190-207: into_parts, then the
\* lookup of request.event() in the task's own module map. A hit asks the
\* module for a handler and waits for it; a miss goes straight to the Response.
call_lookup(n) ==
    /\ task[n].pc = "spawned"
    /\ LET parts == into_parts(Unwrap(task[n].dispatch_request))
           module_request == parts[1]
           found == module_map_get(task[n].module_map, module_request.event)
           t == [task[n] EXCEPT !.callback = parts[2]]
       IN  IF IsSome(found)
           THEN /\ task' = [task EXCEPT ![n] =
                      [t EXCEPT !.routed = "hit", !.module = found, !.pc = "new_service"]]
                /\ UNCHANGED cbLog
           ELSE call_respond(n, [t EXCEPT !.routed = "miss"], lookup_miss(module_request))
    /\ UNCHANGED << EVENT_DISPATCH, lockVars, constructVars, nextId, request,
                    caller, handle, seen >>

\* Line 187, fut.await? resolved with a handler: the handler is called with
\* the ModuleRequest and the task waits for it.
call_handler(n) ==
    /\ task[n].pc = "new_service"
    /\ task' = [task EXCEPT ![n].ctor = "ok", ![n].pc = "handler"]
    /\ seen' = [seen EXCEPT ![n] =
                  Append(@, into_parts(Unwrap(task[n].dispatch_request))[1])]
    /\ UNCHANGED << EVENT_DISPATCH, lockVars, constructVars, nextId, request,
                    caller, handle, cbLog >>

\* Mutant of call_new_service_failed: the failed construction is retried, the
\* task goes back to the lookup.
call_new_service_failed_retry(n, e) ==
    /\ task[n].pc = "new_service"
    /\ task' = [task EXCEPT ![n].ctor = "fail", ![n].pc = "spawned"]
    /\ UNCHANGED << EVENT_DISPATCH, lockVars, constructVars, nextId, request,
                    caller, handle, seen, cbLog >>

\* Line 187, fut.await? resolved with an error: `?` leaves the async block
\* with Err(e), past the handler and past lines 201-207.
call_new_service_failed(n, e) ==
    /\ task[n].pc = "new_service"
    /\ task' = [task EXCEPT ![n].ctor = "fail",
                            ![n].output = Some(spawn_output([ok |-> FALSE, val |-> e])),
                            ![n].pc = "finished", ![n].runtime = 0]
    /\ UNCHANGED << EVENT_DISPATCH, lockVars, constructVars, nextId, request,
                    caller, handle, seen, cbLog >>

\* Line 188, service_fut.await resolved with the handler's Result, then lines
\* 201-207.
call_handler_returned(n, result) ==
    /\ task[n].pc = "handler"
    /\ call_respond(n, [task[n] EXCEPT !.hres = Some(result)], result)
    /\ UNCHANGED << EVENT_DISPATCH, lockVars, constructVars, nextId, request,
                    caller, handle, seen >>

\* Mutant of call_callback_returned: the end of the callback is reported as
\* an error of the dispatch.
call_callback_returned_err(n) ==
    /\ task[n].pc = "callback"
    /\ task' = [task EXCEPT ![n].output =
                    Some(spawn_output([ok |-> FALSE,
                                       val |-> InternalError_new(<< "callback" >>)])),
                            ![n].pc = "finished", ![n].runtime = 0]
    /\ UNCHANGED << EVENT_DISPATCH, lockVars, constructVars, nextId, request,
                    caller, handle, seen, cbLog >>

\* Mutant of call_callback_returned: the response was moved into the callback
\* and call returns a default EventResponse.
call_callback_returned_default(n) ==
    /\ task[n].pc = "callback"
    /\ task' = [task EXCEPT ![n].output =
                    Some(spawn_output([ok |-> TRUE,
                                       val |-> [status |-> "Ok", payload |-> << >>]])),
                            ![n].pc = "finished", ![n].runtime = 0]
    /\ UNCHANGED << EVENT_DISPATCH, lockVars, constructVars, nextId, request,
                    caller, handle, seen, cbLog >>

\* Line 204, the callback's future completed; line 207 returns Ok(response).
call_callback_returned(n) ==
    /\ task[n].pc = "callback"
    /\ task' = [task EXCEPT ![n].output =
                    Some(spawn_output([ok |-> TRUE, val |-> Unwrap(task[n].response)])),
                            ![n].pc = "finished", ![n].runtime = 0]
    /\ UNCHANGED << EVENT_DISPATCH, lockVars, constructVars, nextId, request,
                    caller, handle, seen, cbLog >>

\* The handler (line 188) or the callback (line 204) panics: tokio catches
\* the panic, the task ends without an output and its JoinHandle reports it.
task_panic(n) ==
    /\ task[n].pc \in {"handler", "callback"}
    /\ task' = [task EXCEPT ![n].pc = "panicked", ![n].runtime = 0]
    /\ UNCHANGED << EVENT_DISPATCH, lockVars, constructVars, nextId, request,
                    caller, handle, seen, cbLog >>

\* A handler that itself calls EventDispatch::construct (lines 36-50) on its
\* worker thread. On a poisoned lock write().unwrap() panics. Otherwise the
\* assignment of line 49 drops the installed runtime from inside a runtime
\* worker, which panics while the write guard is held: the lock is poisoned,
\* the runtime being dropped shuts down, the new value is in place and the
\* handler's task ends with the panic.
construct_in_handler(n, modules) ==
    /\ task[n].pc = "handler"
    /\ constructPc = "idle"
    /\ nConstructs < MaxConstructs
    /\ ~writer /\ readers = {}
    /\ nConstructs' = nConstructs + 1
    /\ IF poisoned
       THEN /\ task' = [task EXCEPT ![n].pc = "panicked", ![n].runtime = 0]
            /\ UNCHANGED << EVENT_DISPATCH, poisoned >>
       ELSE /\ poisoned' = TRUE
            /\ EVENT_DISPATCH' = Some([ module_map |-> as_module_map(modules),
                                        runtime |-> nConstructs + 1 ])
            /\ task' = [ shutdown_runtime(task, installed_runtime)
                            EXCEPT ![n].pc = "panicked", ![n].runtime = 0 ]
    /\ UNCHANGED << writer, readers, constructPc, pending, nextId, request,
                    caller, handle, seen, cbLog >>

\* ------------------------------------------------------- DispatchFuture
\* The JoinHandle of task t: Pending (None) until the task has ended, then
\* Ok(output) or Err(JoinError).
join_handle(t) ==
    CASE t.pc = "finished"  -> Some([ok |-> TRUE,  val |-> Unwrap(t.output)])
      [] t.pc = "panicked"  -> Some([ok |-> FALSE, val |-> "Panic"])
      [] t.pc = "cancelled" -> Some([ok |-> FALSE, val |-> "Cancelled"])
      [] OTHER              -> None

\* Mutant of join_output: a JoinError is answered with a default EventResponse.
join_output_default(joined) ==
    IF joined.ok THEN joined.val ELSE [status |-> "Ok", payload |-> << >>]

\* Lines 68-71: the join result becomes the Response, a JoinError through
\* InternalError::new(format!("Dispatch join error: {:?}", e)).as_response().
join_output(joined) ==
    unwrap_or_else(joined,
                   LAMBDA e : as_response(InternalError_new(
                                  << "Dispatch join error: " >> \o Debug_JoinError(e))))

\* DispatchFuture::poll for request n: Poll::Ready(response) as Some, Pending as None.
poll(n) ==
    LET fut == Unwrap(handle[n])
    IN  IF fut.kind = "ready"
        THEN fut.value
        ELSE IF IsSome(join_handle(task[n]))
             THEN Some(join_output(Unwrap(join_handle(task[n]))))
             ELSE None

\* The caller of async_send awaits the handle it was given.
await_handle(n) ==
    /\ caller[n].pc = "waiting"
    /\ caller[n].mode = "async"
    /\ IsSome(poll(n))
    /\ caller' = [caller EXCEPT ![n].pc = "resolved",
                                ![n].results = Append(@, Unwrap(poll(n)))]
    /\ UNCHANGED << EVENT_DISPATCH, lockVars, constructVars, nextId, request,
                    handle, task, seen, cbLog >>

\* Mutant of sync_send_block_on: sync_send returns a default EventResponse
\* instead of the one its handle resolved to.
sync_send_block_on_default(n) ==
    /\ caller[n].pc = "waiting"
    /\ caller[n].mode = "sync"
    /\ IsSome(poll(n))
    /\ caller' = [caller EXCEPT ![n].pc = "resolved",
                                ![n].results = Append(@, [status |-> "Ok", payload |-> << >>])]
    /\ UNCHANGED << EVENT_DISPATCH, lockVars, constructVars, nextId, request,
                    handle, task, seen, cbLog >>

\* sync_send, line 87: block_on drives the handle of async_send to its end
\* and returns the Response.
sync_send_block_on(n) ==
    /\ caller[n].pc = "waiting"
    /\ caller[n].mode = "sync"
    /\ IsSome(poll(n))
    /\ caller' = [caller EXCEPT ![n].pc = "resolved",
                                ![n].results = Append(@, Unwrap(poll(n)))]
    /\ UNCHANGED << EVENT_DISPATCH, lockVars, constructVars, nextId, request,
                    handle, task, seen, cbLog >>

\* ------------------------------------------------------------ specification
NextOver(payloads) ==
    \/ \E modules \in ModuleLists : construct_write(modules)
    \/ construct_assign
    \/ \E n \in RequestIds, mode \in Modes :
          \E req \in BuiltRequests(n, payloads) : async_send_read(n, req, mode)
    \/ \E n \in RequestIds : async_send_spawn(n)
    \/ \E n \in RequestIds : call_lookup(n)
    \/ \E n \in RequestIds : call_handler(n)
    \/ \E n \in RequestIds, e \in FactoryErrors : call_new_service_failed(n, e)
    \/ \E n \in RequestIds :
          /\ task[n].pc = "handler"
          /\ \E result \in HandlerResults(seen[n][Len(seen[n])]) :
                call_handler_returned(n, result)
    \/ \E n \in RequestIds : call_callback_returned(n)
    \/ \E n \in RequestIds : task_panic(n)
    \/ \E n \in RequestIds, modules \in ModuleLists : construct_in_handler(n, modules)
    \/ \E n \in RequestIds : await_handle(n)
    \/ \E n \in RequestIds : sync_send_block_on(n)

Next == NextOver(Payloads)

Spec == Init /\ [][Next]_vars

\* The caller polls the handle it holds: block_on does so until the Response
\* is there, and a task that ends wakes the JoinHandle's waiter.
Fairness ==
    \A n \in RequestIds : WF_vars(await_handle(n)) /\ WF_vars(sync_send_block_on(n))

\* The specification of the progress claims: the requests carry no payload
\* (the payload plays no part in whether a handle resolves).
FairSpec == Init /\ [][NextOver({"None"})]_vars /\ Fairness

\* ------------------------------------------------------------- vocabulary
Submitted(n) == IsSome(request[n])
Resolved(n) == caller[n].pc = "resolved"
Result(n) == caller[n].results[1]
HasCallback(n) == IsSome(Unwrap(request[n]).callback)
\* The unit of work ended without an output.
Lost(n) == task[n].pc \in {"panicked", "cancelled"}
\* The unit of work ran to its end and produced its output.
Finished(n) == task[n].pc = "finished"

IsResponse(v) ==
    /\ DOMAIN v = {"status", "payload"}
    /\ v.status \in {"Ok", "Err", "Internal"}

\* The Response reporting the loss of a task.
LossResponse(kind) ==
    [ status |-> "Internal",
      payload |-> << "Dispatch join error: ", "JoinError", kind >> ]

TypeOK ==
    /\ poisoned \in BOOLEAN /\ writer \in BOOLEAN
    /\ readers \subseteq RequestIds
    /\ nConstructs \in 0..MaxConstructs
    /\ nextId \in 1..(MaxRequests + 1)
    /\ \A n \in RequestIds :
          /\ caller[n].pc \in {"idle", "reading", "waiting", "resolved", "panicked"}
          /\ task[n].pc \in {"none", "finished", "panicked", "cancelled"} \cup PendingPcs
          /\ (task[n].pc \in PendingPcs) = (task[n].runtime # 0)
          /\ task[n].pc \in PendingPcs => task[n].runtime = installed_runtime

\* ------------------------------------------------------------------ claims

\* C1: every request submitted through async_send or sync_send yields exactly
\* one Response: once the submission has been made the caller holds a handle
\* or the Response, never a panic, it never receives two, and what it receives
\* is an EventResponse. (The finite part of the claim: a submission that ends
\* in a panic has no handle that could ever resolve.)
C1_ExactlyOneResponse ==
    \A n \in RequestIds :
        Submitted(n) =>
            /\ caller[n].pc \in {"reading", "waiting", "resolved"}
            /\ Len(caller[n].results) <= 1
            /\ Resolved(n) => Len(caller[n].results) = 1 /\ IsResponse(Result(n))

\* C2: a request that carries a callback has had it invoked exactly once when
\* its dispatch has ended with a handler success, a handler error, a routing
\* miss or a construction failure (the unit of work produced its output), and
\* never more than once at any time.
C2_CallbackExactlyOnce ==
    \A n \in RequestIds :
        /\ Len(cbLog[n]) <= 1
        /\ (Submitted(n) /\ HasCallback(n) /\ Finished(n)) => Len(cbLog[n]) = 1

\* C3 as stated: whenever the callback was invoked, the Response it was given
\* equals the Response the caller receives.
C3_CallbackGetsCallersResponse ==
    \A n \in RequestIds :
        Resolved(n) => \A i \in DOMAIN cbLog[n] : cbLog[n][i] = Result(n)

\* C3 amended: the Response given to the callback equals the caller's when the
\* unit of work ran to its end; when it is lost after the callback was invoked
\* (the callback panics, or the runtime is dropped while the callback is
\* pending) the caller receives the Response reporting the loss instead.
C3_CallbackGetsCallersResponseUnlessLost ==
    \A n \in RequestIds :
        Resolved(n) =>
            \A i \in DOMAIN cbLog[n] :
                /\ Finished(n) => cbLog[n][i] = Result(n)
                /\ Lost(n) => /\ Result(n) \in {LossResponse("Panic"), LossResponse("Cancelled")}
                              /\ cbLog[n][i] # Result(n)

C3_Witness ==
    \E n \in RequestIds :
        Resolved(n) /\ Finished(n) /\ Len(cbLog[n]) = 1 /\ cbLog[n][1] = Result(n)

\* C4: a submission made while the singleton is uninitialized does not panic:
\* every submission that has left async_send has returned a handle, which
\* resolves to an error Response.
C4_UninitializedSubmissionReturnsHandle ==
    \A n \in RequestIds :
        (Submitted(n) /\ caller[n].pc # "reading") =>
            /\ caller[n].pc # "panicked"
            /\ IsSome(handle[n])

\* C5: when the unit of work of a request is lost (dropped with its runtime,
\* or ended by a panic of the handler or the callback), the handle is ready
\* at once with the Response reporting the loss, and the caller that awaits it
\* does receive that Response: the handle never stays pending.
C5_LostTaskResolves ==
    /\ [](\A n \in RequestIds :
            Lost(n) =>
                /\ poll(n) = Some(LossResponse(IF task[n].pc = "panicked"
                                               THEN "Panic" ELSE "Cancelled"))
                /\ Resolved(n) => Result(n) = Unwrap(poll(n)))
    /\ \A n \in RequestIds : Lost(n) ~> Resolved(n)

C5_Witness ==
    \E n \in RequestIds :
        /\ task[n].pc = "cancelled" /\ Resolved(n)
        /\ Result(n) = LossResponse("Cancelled")

\* The Response of a routing miss for request n: the message of lines 191-194
\* around the request's id, event key and payload.
MissResponse(n) ==
    [ status |-> "Internal",
      payload |-> << "Can not find the module to handle the request:", "ModuleRequest",
                     Unwrap(request[n]).id, Unwrap(request[n]).event,
                     Unwrap(request[n]).payload >> ]

\* A message (a sequence of words) contains a word.
Contains(msg, word) == \E i \in DOMAIN msg : msg[i] = word

ConstructionFailureResponse(e) ==
    [ status |-> "Internal", payload |-> << "SystemError", e.kind >> \o e.msg ]

\* C7: when the module fails to construct a handler, the handler is never
\* invoked for the request, the unit of work ends with an error Response made
\* of the construction error (no raw Err leaves the task), and the caller
\* receives that Response.
C7_ConstructionFailure ==
    \A n \in RequestIds :
        task[n].ctor = "fail" =>
            /\ seen[n] = << >>
            /\ task[n].hres = None
            /\ Finished(n)
            /\ \E e \in FactoryErrors :
                  /\ task[n].output = Some(ConstructionFailureResponse(e))
                  /\ Resolved(n) => Result(n) = ConstructionFailureResponse(e)

C7_Witness ==
    \E n \in RequestIds :
        /\ task[n].ctor = "fail" /\ Resolved(n)
        /\ Result(n).status = "Internal"
        /\ task[n].routed = "hit"

SameContent(a, b) ==
    /\ Unwrap(request[a]).event = Unwrap(request[b]).event
    /\ Unwrap(request[a]).payload = Unwrap(request[b]).payload
    /\ Unwrap(request[a]).callback = Unwrap(request[b]).callback

\* Two dispatches that ran to their end against the same registry and whose
\* module and handler behaved the same.
SameRun(a, b) ==
    /\ Finished(a) /\ Finished(b)
    /\ task[a].module_map = task[b].module_map
    /\ task[a].ctor = task[b].ctor
    /\ task[a].hres = task[b].hres

\* A request sent with sync_send and one sent with async_send, both answered.
SyncAsyncPair(a, b) ==
    /\ Resolved(a) /\ Resolved(b)
    /\ caller[a].mode = "sync" /\ caller[b].mode = "async"
    /\ SameContent(a, b) /\ SameRun(a, b)

WithoutRequestId(response) ==
    IF response.status = "Internal" /\ Len(response.payload) = 5
       /\ response.payload[2] = "ModuleRequest"
    THEN [response EXCEPT !.payload[3] = "_"]
    ELSE response

C10_NoCrossRequestInterference ==
    /\ \A n \in RequestIds :
          /\ Len(seen[n]) <= 1
          /\ \A i \in DOMAIN seen[n] :
                /\ seen[n][i].id = Unwrap(request[n]).id
                /\ seen[n][i].event = Unwrap(request[n]).event
                /\ seen[n][i].payload = Unwrap(request[n]).payload
          /\ (Resolved(n) /\ Finished(n)) =>
                CASE task[n].routed = "miss" -> Result(n) = MissResponse(n)
                  [] task[n].ctor = "fail"   -> Result(n).status = "Internal"
                  [] OTHER -> /\ task[n].hres = Some([ok |-> Result(n).status = "Ok",
                                                      val |-> Unwrap(task[n].hres).val])
                              /\ Result(n).payload[Len(Result(n).payload)]
                                    = Unwrap(request[n]).payload
    /\ \A a, b \in RequestIds :
          \A i \in DOMAIN seen[a], j \in DOMAIN seen[b] :
              seen[a][i].id = seen[b][j].id => a = b /\ i = j

\* Two requests with different payloads in their handlers at the same time,
\* both answered with their own payload.
C10_Witness ==
    \E a, b \in RequestIds :
        /\ a # b
        /\ Resolved(a) /\ Resolved(b) /\ Finished(a) /\ Finished(b)
        /\ Len(seen[a]) = 1 /\ Len(seen[b]) = 1
        /\ Unwrap(request[a]).payload # Unwrap(request[b]).payload
        /\ Result(a) = [status |-> "Ok", payload |-> << Unwrap(request[a]).payload >>]
        /\ Result(b) = [status |-> "Ok", payload |-> << Unwrap(request[b]).payload >>]

\* The dispatch of request n has failed: the module built no handler, the
\* handler reported an error, or the unit of work was lost.
Failed(n) ==
    \/ task[n].ctor = "fail"
    \/ IsSome(task[n].hres) /\ ~Unwrap(task[n].hres).ok
    \/ Lost(n)

\* C11: each request is attempted once. A task asks its module for a handler
\* only on its first poll and calls the handler only when that construction
\* has succeeded, so a handler is constructed at most once and invoked at most
\* once; a task is never spawned again; and once the dispatch has failed no
\* handler is constructed or invoked for the request any more, and what the
\* caller receives is a Response.
C11_AttemptedOnce ==
    /\ [](\A n \in RequestIds :
            /\ Len(seen[n]) <= 1
            /\ (Failed(n) /\ Resolved(n)) => IsResponse(Result(n)))
    /\ [][\A n \in RequestIds :
            /\ (task'[n].pc = "spawned" /\ task[n].pc # "spawned") => task[n].pc = "none"
            /\ (task'[n].pc = "new_service" /\ task[n].pc # "new_service")
                  => task[n].pc = "spawned"
            /\ (task'[n].pc = "handler" /\ task[n].pc # "handler")
                  => task[n].pc = "new_service" /\ seen[n] = << >>
            /\ seen'[n] # seen[n]
                  => task[n].pc = "new_service" /\ task'[n].pc = "handler"
            /\ Failed(n)
                  => /\ task'[n].pc \notin {"spawned", "new_service", "handler"}
                     /\ seen'[n] = seen[n]
                     /\ Failed(n)'
         ]_vars

\* A construction failure and a handler error, each answered, the handler of
\* the second request invoked once.
C11_Witness ==
    \E n, m \in RequestIds :
        /\ task[n].ctor = "fail" /\ Resolved(n) /\ seen[n] = << >>
        /\ IsSome(task[m].hres) /\ ~Unwrap(task[m].hres).ok
        /\ Resolved(m) /\ Len(seen[m]) = 1

\* The Response that routing and the handler produced for request n.
EngineResponse(n) ==
    IF task[n].routed = "miss"
    THEN MissResponse(n)
    ELSE IF Unwrap(task[n].hres).ok
         THEN Unwrap(task[n].hres).val
         ELSE [status |-> "Err", payload |-> Unwrap(task[n].hres).val.msg]

\* The callback of request n was invoked and the task ended in it by a panic.
CallbackPanicked(n) == task[n].pc = "panicked" /\ Len(cbLog[n]) = 1

\* C12 as stated: whether or not the callback failed, the caller receives the
\* Response produced by routing and the handler.
C12_CallbackFaultNotSurfaced ==
    \A n \in RequestIds :
        (Resolved(n) /\ Len(cbLog[n]) = 1 /\ (Finished(n) \/ CallbackPanicked(n)))
            => Result(n) = EngineResponse(n)

\* C12 amended: a callback that returns leaves the caller's Response as routing
\* and the handler produced it (the callback has no way to report an error);
\* a callback that panics ends the unit of work, and the caller receives the
\* Response reporting the loss instead.
C12_CallbackFaultSurfacesAsLoss ==
    \A n \in RequestIds :
        (Resolved(n) /\ Len(cbLog[n]) = 1) =>
            /\ Finished(n) => Result(n) = EngineResponse(n)
            /\ CallbackPanicked(n) => /\ Result(n) = LossResponse("Panic")
                                      /\ Result(n) # EngineResponse(n)

C12_Witness ==
    \E n, m \in RequestIds :
        /\ Resolved(n) /\ CallbackPanicked(n) /\ Result(n) = LossResponse("Panic")
        /\ Resolved(m) /\ Finished(m) /\ Len(cbLog[m]) = 1
        /\ Result(m) = EngineResponse(m)

\* The looked-up key of request n, and whether the lookup has been made.
EventOf(n) == Unwrap(request[n]).event
Routed(n) == task[n].routed # "none"

\* C13 as stated: once a registry is built, the lookup of a key gives the same
\* result for every later dispatch, whatever the engine has done in between.
C13_RegistryFrozen ==
    \A a, b \in RequestIds :
        (Routed(a) /\ Routed(b) /\ EventOf(a) = EventOf(b))
            => /\ task[a].routed = task[b].routed
               /\ task[a].module = task[b].module

\* C13 amended: only a construct call changes the installed registry, and it
\* replaces it whole. A dispatch looks its key up in its own copy of the
\* registry, which no step changes: a key of the copy resolves to the module
\* registered for it, a key not in it misses, and two dispatches holding the
\* same registry get the same result for the same key.
C13_RegistryFrozenBetweenConstructs ==
    /\ [](\A a \in RequestIds : Routed(a) =>
            /\ task[a].routed = "hit" <=> EventOf(a) \in DOMAIN task[a].module_map
            /\ task[a].routed = "hit" => task[a].module = << task[a].module_map[EventOf(a)] >>
            /\ task[a].routed = "miss" => task[a].module = << >>
            /\ \A b \in RequestIds :
                  (Routed(b) /\ EventOf(a) = EventOf(b)
                        /\ task[a].module_map = task[b].module_map)
                     => task[a].routed = task[b].routed /\ task[a].module = task[b].module)
    /\ [][ /\ EVENT_DISPATCH' # EVENT_DISPATCH => nConstructs' = nConstructs + 1
                                                   \/ constructPc = "writing"
           /\ \A n \in RequestIds :
                 task[n].pc # "none" => task'[n].module_map = task[n].module_map
         ]_vars

\* Two dispatches of one key under one registry with one result, and the
\* registry then replaced by a second construct call.
C13_Witness ==
    \E a, b \in RequestIds :
        /\ a # b /\ Routed(a) /\ Routed(b) /\ EventOf(a) = EventOf(b)
        /\ task[a].module_map = task[b].module_map
        /\ task[a].routed = "hit" /\ task[a].module = task[b].module
        /\ nConstructs = 2 /\ constructPc = "idle"
        /\ Unwrap(EVENT_DISPATCH).module_map # task[a].module_map

\* C14: the singleton starts uninitialized, is initialized only by a construct
\* call, holds a registry and a runtime in every state after a construct call
\* has completed, and is never made uninitialized again.
C14_LifecycleMonotone ==
    /\ EVENT_DISPATCH = None
    /\ [](/\ (nConstructs > 0 /\ constructPc = "idle") => IsSome(EVENT_DISPATCH)
          /\ IsSome(EVENT_DISPATCH) =>
                /\ Unwrap(EVENT_DISPATCH).runtime \in 1..nConstructs
                /\ \E modules \in ModuleLists :
                      Unwrap(EVENT_DISPATCH).module_map = as_module_map(modules))
    /\ [][ /\ IsSome(EVENT_DISPATCH) => IsSome(EVENT_DISPATCH')
           /\ (~IsSome(EVENT_DISPATCH) /\ IsSome(EVENT_DISPATCH'))
                 => constructPc = "writing" /\ constructPc' = "idle"
         ]_vars

\* The singleton installed, replaced by a second construct call that dropped
\* the runtime of a pending dispatch, and still initialized.
C14_Witness ==
    /\ nConstructs = 2 /\ constructPc = "idle"
    /\ IsSome(EVENT_DISPATCH) /\ Unwrap(EVENT_DISPATCH).runtime = 2
    /\ \E n \in RequestIds : task[n].pc = "cancelled"

\* The steps of the per-request state machine, as positions of the task.
StepOf(pc) ==
    CASE pc = "none" -> 0
      [] pc = "spawned" -> 1
      [] pc = "new_service" -> 2
      [] pc = "handler" -> 3
      [] pc = "callback" -> 4
      [] OTHER -> 5

\* The callback of request n was invoked with the final Response, after the
\* lookup missed or the handler returned.
CallbackAfterOutcome(n) ==
    Len(cbLog[n]) = 1 =>
        /\ task[n].response = << cbLog[n][1] >>
        /\ task[n].routed = "miss" \/ IsSome(task[n].hres)
        /\ task[n].routed = "miss" <=> seen[n] = << >>

\* C15 as stated: the handler runs after the submission, the callback is
\* invoked after the handler's outcome has become the final Response, and the
\* caller's handle resolves only after the callback's work has completed.
C15_StepOrder ==
    \A n \in RequestIds :
        /\ seen[n] # << >> => Submitted(n)
        /\ CallbackAfterOutcome(n)
        /\ (Resolved(n) /\ Len(cbLog[n]) = 1) => Finished(n)

\* C15 amended: the task only moves forward through the steps; the callback
\* is invoked after the handler's outcome has become the final Response; a
\* task with an invoked callback finishes only from the await of the callback;
\* the caller's handle never resolves while the callback is pending. It
\* resolves after the callback's work has completed, or, if the unit of work
\* is lost during the callback, with the Response reporting the loss although
\* the callback's work never completed.
C15_StepOrderUnlessLost ==
    /\ [](\A n \in RequestIds :
            /\ seen[n] # << >> => Submitted(n)
            /\ CallbackAfterOutcome(n)
            /\ Resolved(n) => StepOf(task[n].pc) \in {0, 5}
            /\ (Resolved(n) /\ Len(cbLog[n]) = 1) =>
                  \/ Finished(n)
                  \/ Lost(n) /\ Result(n) = LossResponse(IF task[n].pc = "panicked"
                                                         THEN "Panic" ELSE "Cancelled"))
    /\ [][\A n \in RequestIds :
            /\ StepOf(task'[n].pc) >= StepOf(task[n].pc)
            /\ cbLog'[n] # cbLog[n] => StepOf(task[n].pc) \in {1, 3} /\ task'[n].pc = "callback"
            /\ (task'[n].pc = "finished" /\ task[n].pc # "finished" /\ Len(cbLog'[n]) = 1)
                  => task[n].pc = "callback"
            /\ (Resolved(n)' /\ ~Resolved(n)) => StepOf(task[n].pc) \in {0, 5}
         ]_vars

\* A request that went through every step and resolved, and one whose unit
\* of work was lost during the callback and resolved.
C15_Witness ==
    \E n, m \in RequestIds :
        /\ Resolved(n) /\ Finished(n) /\ Len(cbLog[n]) = 1 /\ Len(seen[n]) = 1
        /\ Resolved(m) /\ Lost(m) /\ Len(cbLog[m]) = 1

\* C16: the ModuleRequest a handler is called with has the three fields id,
\* event and payload and no other, each with the value the submitted
\* DispatchRequest had; the callback stays with the task; and the registry was
\* searched with the event key of the submitted DispatchRequest.
C16_IntoPartsKeepsFields ==
    \A n \in RequestIds :
        LET req == Unwrap(request[n])
        IN  /\ seen[n] # << >> =>
                 /\ DOMAIN seen[n][1] = {"id", "event", "payload"}
                 /\ seen[n][1] = [id |-> req.id, event |-> req.event, payload |-> req.payload]
                 /\ seen[n][1].event \in DOMAIN task[n].module_map
                 /\ task[n].module = << task[n].module_map[req.event] >>
            /\ Routed(n) =>
                 /\ task[n].callback = req.callback
                 /\ task[n].dispatch_request = << req >>
                 /\ task[n].routed = "hit" <=> req.event \in DOMAIN task[n].module_map

\* A handler called for a request that carries a payload and a callback, and
\* a routing miss of such a request.
C16_Witness ==
    \E n, m \in RequestIds :
        /\ Len(seen[n]) = 1 /\ HasCallback(n) /\ Unwrap(request[n]).payload = "p1"
        /\ task[n].callback # None
        /\ task[m].routed = "miss" /\ Unwrap(request[m]).payload = "p1" /\ HasCallback(m)

\* A call of async_send by the next caller can take its first step.
CanSubmit ==
    ENABLED (\E mode \in Modes, req \in BuiltRequests(nextId, Payloads) :
                async_send_read(nextId, req, mode))

\* A call of async_send that holds the read guard can take its last step.
CanReturn(n) == ENABLED async_send_spawn(n)

\* C17 as stated: in every state a call of async_send can go on to its end,
\* whatever else the engine is doing, a construct call in progress included.
C17_SubmissionNeverBlocks ==
    /\ nextId \in RequestIds => CanSubmit
    /\ \A n \in RequestIds : caller[n].pc = "reading" => CanReturn(n)

\* C17 amended: a call of async_send waits for nothing but the write guard of
\* a construct call in progress. Whenever no construct call holds the write
\* guard it can take the read guard, whatever handlers, callbacks and other
\* submissions are doing, and having taken it it can always finish; while
\* construct holds the write guard it cannot start.
C17_SubmissionBlocksOnlyOnConstruct ==
    /\ nextId \in RequestIds => (CanSubmit <=> ~writer)
    /\ \A n \in RequestIds : caller[n].pc = "reading" => CanReturn(n) /\ ~writer

\* A submission under way while the handler of another request is running
\* and the engine is initialized.
C17_Witness ==
    \E n, m \in RequestIds :
        /\ caller[n].pc = "reading" /\ CanReturn(n)
        /\ task[m].pc = "handler"
        /\ IsSome(EVENT_DISPATCH)

\* C18: the module map a task routes with is the one that was installed when
\* async_send spawned it, copied under the read guard; no later step, a
\* construct call that replaces the singleton included, changes the copy; and
\* the result of the lookup is the one the copy gives for the request's key.
C18_RoutesAgainstSnapshot ==
    /\ [](\A n \in RequestIds : Routed(n) =>
            LET found == module_map_get(task[n].module_map, EventOf(n))
            IN  /\ task[n].routed = (IF IsSome(found) THEN "hit" ELSE "miss")
                /\ task[n].module = found)
    /\ [][\A n \in RequestIds :
            /\ (task[n].pc = "none" /\ task'[n].pc # "none")
                  => /\ n \in readers /\ ~writer
                     /\ IsSome(EVENT_DISPATCH)
                     /\ task'[n].module_map = Unwrap(EVENT_DISPATCH).module_map
                     /\ ~Routed(n)'
            /\ task[n].pc # "none" => task'[n].module_map = task[n].module_map
            /\ Routed(n) => task'[n].routed = task[n].routed /\ task'[n].module = task[n].module
         ]_vars

\* A request that was in flight when construct replaced the singleton: its
\* lookup missed in the registry of its submission, and the registry now
\* installed has its key.
C18_Witness ==
    \E n \in RequestIds :
        /\ task[n].routed = "miss" /\ task[n].pc = "cancelled"
        /\ IsSome(EVENT_DISPATCH)
        /\ EventOf(n) \in DOMAIN Unwrap(EVENT_DISPATCH).module_map
        /\ EventOf(n) \notin DOMAIN task[n].module_map

\* A construct call can take the write guard.
CanConstruct == ENABLED (\E modules \in ModuleLists : construct_write(modules))

\* Every call of async_send made so far has returned (or unwound).
AllSubmissionsReturned == \A n \in RequestIds : caller[n].pc # "reading"

\* C19: a submission holds the read guard exactly from its read of the
\* singleton to its return, never while its task exists only to run the
\* handler or the callback and never while its handle is awaited. So whenever
\* every submission has returned no read guard is held, and, however many
\* dispatches are pending, a construct call can take the write guard and a
\* new submission the read guard unless a construct call is itself under way.
C19_LockHeldOnlyWhileSubmitting ==
    /\ \A n \in RequestIds :
          /\ n \in readers <=> caller[n].pc = "reading"
          /\ n \in readers => task[n].pc = "none" /\ handle[n] = None
          /\ task[n].pc \in PendingPcs => n \notin readers
    /\ AllSubmissionsReturned =>
          /\ readers = {}
          /\ (constructPc = "idle" /\ nConstructs < MaxConstructs) => CanConstruct
          /\ (constructPc = "idle" /\ nextId \in RequestIds) => CanSubmit

\* Every submission has returned, one dispatch waits in its handler and one
\* in its callback, and construct can take the lock.
C19_Witness ==
    /\ AllSubmissionsReturned /\ nextId > MaxRequests
    /\ \E n, m \in RequestIds : task[n].pc = "handler" /\ task[m].pc = "callback"
    /\ readers = {} /\ CanConstruct

\* The Response of the Err arm of async_send.
RuntimeErrorResponse ==
    [ status |-> "Internal", payload |-> << "Dispatch runtime error: ", "PoisonError" >> ]

\* Request n was answered by the Err arm of async_send: it has its handle and
\* no unit of work was ever spawned for it.
ReadFailed(n) ==
    Submitted(n) /\ caller[n].pc \in {"waiting", "resolved"} /\ task[n].pc = "none"

\* C20: a submission made while the lock of the singleton is poisoned spawns
\* no unit of work and takes no read guard; no handler and no callback is
\* ever invoked for it; its handle is ready from the start with an error
\* Response whose message names the runtime error, and that Response is what
\* the caller receives.
C20_PoisonedReadReturnsErrorHandle ==
    /\ [](\A n \in RequestIds : ReadFailed(n) =>
            /\ poisoned
            /\ task[n] = NoTask /\ seen[n] = << >> /\ cbLog[n] = << >>
            /\ IsSome(handle[n])
            /\ poll(n) = Some(RuntimeErrorResponse)
            /\ RuntimeErrorResponse.status # "Ok"
            /\ Contains(Unwrap(poll(n)).payload, "Dispatch runtime error: ")
            /\ Resolved(n) => Result(n) = RuntimeErrorResponse)
    /\ [][\A n \in RequestIds :
            /\ (poisoned /\ ~Submitted(n) /\ Submitted(n)')
                  => ReadFailed(n)' /\ n \notin readers'
            /\ ReadFailed(n) => ReadFailed(n)'
         ]_vars

\* A request with a callback, submitted on the poisoned lock and answered.
C20_Witness ==
    \E n \in RequestIds :
        /\ ReadFailed(n) /\ Resolved(n) /\ HasCallback(n)
        /\ Result(n) = RuntimeErrorResponse

====
